---- MODULE Spec2Model ----
(***************************************************************************)
(* A model of the competitor monitor (competitor_monitor.py): the          *)
(* AICompetitorMonitor object, its monitoring cycle, the historical store  *)
(* and its file, the report step, and the main() program with its          *)
(* schedule-driven polling loop.                                           *)
(*                                                                         *)
(* Spec and MainSpec share the cycle's actions:                            *)
(*   Spec      the monitor object driven by a caller that constructs it    *)
(*             and calls run_weekly_report() any number of times;          *)
(*   MainSpec  the program main(): construct, set up the schedule, run     *)
(*             the initial report, then poll schedule.run_pending();       *)
(*   FetchSpec scrape_website_content call by call, with the requests and  *)
(*             the Selenium strategy;                                      *)
(*   FeedSpec  scrape_rss_feeds on a list of two feeds, as a function of   *)
(*             what the feeds hold and of which parses raise;              *)
(*   CliSpec   cli.py's add_target and remove_target on targets.json.      *)
(***************************************************************************)
EXTENDS Integers, Sequences, FiniteSets, TLC

----------------------------------------------------------------------------
(* Bounds of the model *)

MaxCycles == 2      \* run_weekly_report() invocations, over all processes
MaxProcs == 2       \* processes started (MaxProcs - 1 restarts)
MaxEdits == 1       \* times the monitored sites change their content
MaxFaults == 1      \* injected failures (fetch, capability, file, delivery, kill)
MaxClock == 2       \* ticks of the wall clock (main's polling loop)
MaxEntries == 3     \* entries of a parsed feed
MaxTargets == 3     \* targets in targets.json

----------------------------------------------------------------------------
(* The environment: targets.json, the monitored pages, config.json *)

NoUrl == ""

Targets ==
    << [name |-> "Acme", website_url |-> "acme.test",
        changelog_url |-> "acme.test/changelog",
        pricing_url |-> NoUrl, blog_url |-> "acme.test/blog",
        rss_feeds |-> << "acme.test/feed" >>],
       [name |-> "Beta", website_url |-> "beta.test",
        changelog_url |-> NoUrl, pricing_url |-> NoUrl, blog_url |-> NoUrl,
        rss_feeds |-> << >>] >>

\* The texts a page can show.
PageTexts == {"a", "b"}

\* The value of PYTHONHASHSEED the interpreter draws at start-up.  The seeds
\* are interchangeable, so the first process is given seed 0.
HashSeeds == {0, 1}
StartSeeds(n) == IF n = 0 THEN {0} ELSE HashSeeds

\* config.json: the values of monitoring_frequency setup_monitoring_schedule
\* tests for.
Frequencies == {"daily", "weekly", "monthly"}

ChannelOrder == << "website", "changelog", "pricing", "blog" >>

RECURSIVE SeqToSet(_)
SeqToSet(s) == IF s = << >> THEN {} ELSE {Head(s)} \cup SeqToSet(Tail(s))

Urls ==
    UNION { {Targets[i].website_url, Targets[i].changelog_url,
             Targets[i].pricing_url} \cup SeqToSet(Targets[i].rss_feeds)
            : i \in 1..Len(Targets) } \ {NoUrl}

----------------------------------------------------------------------------
(* Pure functions of the code *)

\* f"{target.name}_website" and its changelog and pricing siblings
Key(name, ch) == name \o "_" \o ch

\* the URL monitor_target uses for a page channel
ChannelUrl(t, ch) ==
    CASE ch = "website" -> t.website_url
      [] ch = "changelog" -> t.changelog_url
      [] ch = "pricing" -> t.pricing_url

\* monitor_target scrapes the website unconditionally, and the other channels
\* under `if target.changelog_url`, `if target.pricing_url`, `if target.rss_feeds`
Configured(t, ch) ==
    CASE ch = "website" -> TRUE
      [] ch = "changelog" -> t.changelog_url # NoUrl
      [] ch = "pricing" -> t.pricing_url # NoUrl
      [] ch = "blog" -> t.rss_feeds # << >>

\* The (target index, channel) steps of one cycle, in the order the two
\* loops (run_monitoring_cycle over targets, monitor_target over channels)
\* reach them.
RECURSIVE PlanFrom(_, _)
PlanFrom(ti, ci) ==
    IF ti > Len(Targets) THEN << >>
    ELSE IF ci > Len(ChannelOrder) THEN PlanFrom(ti + 1, 1)
    ELSE IF Configured(Targets[ti], ChannelOrder[ci])
         THEN << <<ti, ChannelOrder[ci]>> >> \o PlanFrom(ti, ci + 1)
         ELSE PlanFrom(ti, ci + 1)

Plan == PlanFrom(1, 1)

\* the step is the last one of its target: monitor_target returns after it
LastOfTarget(i) == i = Len(Plan) \/ Plan[i + 1][1] # Plan[i][1]

\* the keys of the historical store the targets can produce, in plan order
RECURSIVE KeysOf(_)
KeysOf(p) ==
    IF p = << >> THEN << >>
    ELSE IF Head(p)[2] = "blog" THEN KeysOf(Tail(p))
    ELSE << Key(Targets[Head(p)[1]].name, Head(p)[2]) >> \o KeysOf(Tail(p))

AllKeys == KeysOf(Plan)
KeySet == SeqToSet(AllKeys)

\* A text as the number hash() folds its characters into.
TextCode(s) ==
    CASE s = "" -> 0
      [] s = "a" -> 97
      [] s = "b" -> 98
      [] OTHER -> 97 + Len(s)

\* Python's hash() of a str: keyed by the process's hash seed; hash("") is 0
\* under every seed.
PyHash(s, seed) ==
    IF s = "" THEN 0 ELSE (TextCode(s) * 1000003 + (seed + 1) * 7919) % 2147483647

\* str(n), datetime.isoformat(): the decimal text of a number
Str(n) == ToString(n)

NoEntry == [content |-> "", hash |-> "", last_updated |-> ""]
EmptyStore == [k \in {} |-> NoEntry]

\* the lookup misses the entry (a key built another way than the one written)
PreviousContentMissed(h, k) == ""

\* a lookup that trusts an entry only when its stored digest is the digest a
\* process of seed 0 computes for its content
PreviousContentVerified(h, k) ==
    IF k \in DOMAIN h /\ h[k].hash = Str(PyHash(h[k].content, 0))
    THEN h[k].content ELSE ""

\* dict.get(key, {}).get('content', '')
PreviousContent(h, k) == IF k \in DOMAIN h THEN h[k].content ELSE ""

\* the assignment is left out
PutSkipped(h, k, e) == h

\* an entry is created and never overwritten
PutIfAbsent(h, k, e) ==
    IF k \in DOMAIN h THEN h
    ELSE [x \in DOMAIN h \cup {k} |-> IF x = k THEN e ELSE h[x]]

\* self.historical_data[key] = {...}
Put(h, k, e) == [x \in DOMAIN h \cup {k} |-> IF x = k THEN e ELSE h[x]]

\* a dump that leaves out the last key of the store
DumpWithoutLast(h) ==
    LET present == SelectSeq(AllKeys, LAMBDA k : k \in DOMAIN h)
    IN  [i \in 1..(Len(present) - 1) |->
            << present[i], h[present[i]].content, h[present[i]].hash,
               h[present[i]].last_updated >>]

\* json.dump(self.historical_data, f, indent=2, default=str): the text of the
\* file as the list of its members, each a key with its three strings
Dump(h) ==
    LET present == SelectSeq(AllKeys, LAMBDA k : k \in DOMAIN h)
    IN  [i \in 1..Len(present) |->
            << present[i], h[present[i]].content, h[present[i]].hash,
               h[present[i]].last_updated >>]

\* json.load(f) of such a text
Parse(text) ==
    [k \in {text[i][1] : i \in 1..Len(text)} |->
        LET i == CHOOSE j \in 1..Len(text) : text[j][1] = k
        IN  [content |-> text[i][2], hash |-> text[i][3],
             last_updated |-> text[i][4]]]

\* historical_data.json: missing, holding a complete JSON text, or holding a
\* truncated one (open(..., 'w') has emptied it and the dump has not finished)
NoFile == [state |-> "missing", text |-> << >>]
Truncated == [state |-> "truncated", text |-> << >>]
Written(h) == [state |-> "complete", text |-> Dump(h)]

\* The texts the capabilities return
AnalysisFailed == "AI analysis failed"
SummaryText == "summary"
ContentUpdated == "Content updated since last monitoring"
DiffText == "specific changes"

\* The ways the calls of one analyze_content_with_ai can end: every call
\* answers, the summary call raises, the comparison call raises.
AIOutcomes == {"ok", "summary_raises", "diff_raises"}

\* analyze_content_with_ai without the `previous_content != content` test
AnalyzeAnyPrevious(content, content_type, previous_content, ai) ==
    LET compare == previous_content # ""
    IN  IF ai = "summary_raises" \/ (compare /\ ai = "diff_raises")
        THEN [ai_summary |-> AnalysisFailed, detected_changes |-> << >>]
        ELSE [ai_summary |-> SummaryText,
              detected_changes |->
                  IF compare THEN << ContentUpdated, DiffText >> ELSE << >>]

\* analyze_content_with_ai with a handler around the comparison call alone:
\* the summary and the marker gathered so far are returned
AnalyzePartial(content, content_type, previous_content, ai) ==
    LET compare == previous_content # "" /\ previous_content # content
    IN  IF ai = "summary_raises"
        THEN [ai_summary |-> AnalysisFailed, detected_changes |-> << >>]
        ELSE [ai_summary |-> SummaryText,
              detected_changes |->
                  IF compare
                  THEN IF ai = "diff_raises" THEN << ContentUpdated >>
                       ELSE << ContentUpdated, DiffText >>
                  ELSE << >>]

\* analyze_content_with_ai
Analyze(content, content_type, previous_content, ai) ==
    LET compare == previous_content # "" /\ previous_content # content
    IN  IF ai = "summary_raises" \/ (compare /\ ai = "diff_raises")
        THEN [ai_summary |-> AnalysisFailed, detected_changes |-> << >>]
        ELSE [ai_summary |-> SummaryText,
              detected_changes |->
                  IF compare THEN << ContentUpdated, DiffText >> ELSE << >>]

\* the comparison call is reached
Compares(content, previous_content, ai) ==
    previous_content # "" /\ previous_content # content /\ ai # "summary_raises"

\* the comparison call is made for any previous content, changed or not
CapabilityCallsAnyPrevious(content, previous_content, ai) ==
    IF previous_content # "" /\ ai # "summary_raises" THEN 2 ELSE 1

\* the chat.completions.create calls one analyze_content_with_ai makes: the
\* summary call, and the comparison call when it is reached
CapabilityCalls(content, previous_content, ai) ==
    IF Compares(content, previous_content, ai) THEN 2 ELSE 1

----------------------------------------------------------------------------
(* The feed fetcher *)

\* datetime.now() when the feeds are read, in days
Today == 30

\* timedelta(days=7)
Week == 7

\* What feedparser makes of an entry's date: the entry has no
\* published_parsed ("absent": the feed gave no date), its published_parsed
\* is None ("unparsable": the date's text did not parse), or it is a date:
\* one older than a week and two inside the week.  An "unlinked" entry is
\* dated inside the week and has no link (an RSS item need not have one).
EntryKinds == {"absent", "unparsable", "old", "recent", "newer", "unlinked"}

\* the link of an entry that has none: entry.link raises AttributeError
NoLink == ""

DateOf(kind) ==
    CASE kind = "old" -> Today - Week - 3
      [] kind = "recent" -> Today - 5
      [] kind = "newer" -> Today - 1

\* feedparser.parse(feed_url) of a feed that shows `text`: one entry, dated
\* within the week
ParseFeed(text) ==
    IF text = "" THEN << >>
    ELSE << [title |-> text, summary |-> "", link |-> "link",
             published |-> "newer"] >>

\* the loop over feed.entries without its inner try: the first entry whose
\* date raises ends the feed, by the handler around the feed
RECURSIVE FeedEntriesUntilError(_, _, _)
FeedEntriesUntilError(feed, feed_url, today) ==
    IF feed = << >> THEN << >>
    ELSE LET entry == Head(feed)
         IN  IF entry.published \in {"absent", "unparsable"}
             THEN << >>
             ELSE (IF DateOf(entry.published) >= today - Week
                         /\ entry.link # NoLink
                   THEN << [title |-> entry.title, summary |-> entry.summary,
                            link |-> entry.link,
                            published |-> DateOf(entry.published),
                            source |-> feed_url] >>
                   ELSE << >>)
                  \o FeedEntriesUntilError(Tail(feed), feed_url, today)

\* the loop over feed.entries: datetime(*entry.published_parsed[:6]) raises
\* for an entry without a parsed date and the entry is skipped; an entry of
\* the last week is appended, unless building its dict raises (entry.link of
\* an entry without a link) and the entry is skipped
RECURSIVE FeedEntries(_, _, _)
FeedEntries(feed, feed_url, today) ==
    IF feed = << >> THEN << >>
    ELSE LET entry == Head(feed)
         IN  (IF entry.published \in {"absent", "unparsable"}
              THEN << >>
              ELSE IF DateOf(entry.published) >= today - Week
                      /\ entry.link # NoLink
              THEN << [title |-> entry.title, summary |-> entry.summary,
                       link |-> entry.link,
                       published |-> DateOf(entry.published),
                       source |-> feed_url] >>
              ELSE << >>)
             \o FeedEntries(Tail(feed), feed_url, today)

\* sorted(all_entries, key=lambda x: x['published'], reverse=True): stable
RECURSIVE InsertByPublished(_, _)
InsertByPublished(e, sorted) ==
    IF sorted = << >> THEN << e >>
    ELSE IF Head(sorted).published >= e.published
    THEN << Head(sorted) >> \o InsertByPublished(e, Tail(sorted))
    ELSE << e >> \o sorted

RECURSIVE SortedByPublished(_)
SortedByPublished(entries) ==
    IF entries = << >> THEN << >>
    ELSE InsertByPublished(entries[Len(entries)],
                           SortedByPublished(SubSeq(entries, 1, Len(entries) - 1)))

\* the loop over feed_urls without its handler: the first feed whose parse
\* raises ends the loop
RECURSIVE GatherEntriesUntilError(_, _, _)
GatherEntriesUntilError(feed_urls, parsed, failing) ==
    IF feed_urls = << >> THEN << >>
    ELSE IF Head(feed_urls) \in failing THEN << >>
    ELSE FeedEntries(parsed[Head(feed_urls)], Head(feed_urls), Today)
         \o GatherEntriesUntilError(Tail(feed_urls), parsed, failing)

\* the loop over feed_urls: parsed[u] is what feedparser.parse(u) returns,
\* and a feed whose parse raises is skipped
RECURSIVE GatherEntries(_, _, _)
GatherEntries(feed_urls, parsed, failing) ==
    IF feed_urls = << >> THEN << >>
    ELSE (IF Head(feed_urls) \in failing THEN << >>
          ELSE FeedEntries(parsed[Head(feed_urls)], Head(feed_urls), Today))
         \o GatherEntries(Tail(feed_urls), parsed, failing)

\* scrape_rss_feeds
ScrapeRssFeeds(feed_urls, parsed, failing) ==
    SortedByPublished(GatherEntries(feed_urls, parsed, failing))

\* "\n\n".join(f"Title: ...\nSummary: ...\nLink: ..." for entry in rss_entries[:5])
RECURSIVE JoinEntries(_)
JoinEntries(entries) ==
    IF entries = << >> THEN ""
    ELSE "Title: " \o Head(entries).title \o " Summary: " \o Head(entries).summary
         \o " Link: " \o Head(entries).link
         \o (IF Len(entries) > 1 THEN "||" ELSE "") \o JoinEntries(Tail(entries))

RssContent(rss_entries) ==
    JoinEntries(SubSeq(rss_entries, 1, IF Len(rss_entries) < 5 THEN Len(rss_entries) ELSE 5))

\* a list of two feeds, as a target's rss_feeds can be
FeedUrls == << "acme.test/feed", "acme.test/news" >>

NoFeeds == [u \in SeqToSet(FeedUrls) |-> << >>]

----------------------------------------------------------------------------
(* targets.json *)

\* the file does not exist
NoTargetsFile == [state |-> "missing", list |-> << >>]

\* json.dump(existing_targets, f, indent=2): the file holds the list
TargetsFile(ts) ==
    [state |-> "present",
     list |-> [i \in 1..Len(ts) |->
                  [name |-> ts[i].name, website_url |-> ts[i].website_url]]]

\* what the user types at add_target's prompts, stripped
NameInputs == {"", "Acme", "Beta", "Gamma"}
UrlInputs == {"", "acme.test", "beta.test"}

\* existing_targets.append(target.__dict__)
AppendTarget(existing_targets, name, website_url) ==
    Append(existing_targets, [name |-> name, website_url |-> website_url])

\* del existing_targets[choice], choice counted from 0
DeleteTarget(existing_targets, choice) ==
    SubSeq(existing_targets, 1, choice)
        \o SubSeq(existing_targets, choice + 2, Len(existing_targets))

----------------------------------------------------------------------------
(* State *)

VARIABLES
    pc,                 \* the process: "down", "ready", "call", "initial", "job", "poll", "sleep"
    cpc,                \* run_weekly_report: "idle", "monitor", "save_open", "save_write",
                        \*   "summary", "slack", "notion", "report"
    step,               \* the step of Plan the cycle is at
    results,            \* monitor_target's local list
    all_results,        \* run_monitoring_cycle's list
    historical_data,    \* self.historical_data
    file,               \* historical_data.json
    hashseed,           \* the process's hash seed
    notification_channels, \* config.json
    frequency,          \* config.json
    web,                \* the text each URL shows now
    now,                \* the wall clock
    next_run,           \* the scheduled job's next_run; 0 when no job exists
    summary,            \* run_weekly_report's summary
    sent,               \* the deliveries attempted in this report, with their outcomes
    procNo, cycleNo, edits, faults,
    cycle_start_data,   \* history: historical_data when the cycle began
    fetched,            \* history: key -> text the current cycle fetched ("" none)
    prevFetched,        \* history: the same for the cycle before it
    commit_ok,          \* history: the current cycle's store reached the file
    attempts,           \* history: how each step of Plan the cycle has made ended
    ai_calls,           \* history: the capability calls each of those steps made
    commits,            \* history: completed writes of the store's file in the cycle
    outcome,            \* history: how the last run_weekly_report ended
    exit_cause,         \* history: why the last process ended
    job_calls,          \* history: invocations of the scheduled job in this process
    missed,             \* history: the trigger time passed while a cycle was running
    running,            \* run_weekly_report invocations in progress
    enable_selenium,    \* config.json
    fpc,                \* a fetch call: "idle", "requests", "selenium", "get", "wait",
                        \*   "extract", "except", "finally"
    f_url,              \* the call's url
    use_selenium,       \* the call's use_selenium
    caller,             \* history: who made the last call: "monitor_target", "direct"
    driver,             \* _scrape_with_selenium's driver: "None" or "session"
    sessions,           \* browser sessions that are open
    strategy,           \* history: the fetcher the call was given to
    fetch_exit,         \* history: how the call's fetcher ended
    fetch_text,         \* the text the call returned
    all_entries,        \* what the last call of scrape_rss_feeds returned
    feeds,              \* what each URL of a list of feeds parses to
    failing_feeds,      \* the feeds of that list whose parse raised in the last call
    outage,             \* the network is down: every request and feed parse raises
    targets_json        \* targets.json, as cli.py's add_target and remove_target keep it

cycleVars == << cpc, step, results, all_results, summary, sent >>
storeVars == << historical_data, file >>
configVars == << notification_channels, frequency, targets_json >>
envVars == << web, edits, outage >>
schedVars == << now, next_run, job_calls, missed >>
histVars == << cycle_start_data, fetched, prevFetched, commit_ok, attempts, ai_calls,
              commits >>

fetchVars == << enable_selenium, fpc, f_url, use_selenium, caller, driver,
               sessions, strategy, fetch_exit, fetch_text, all_entries,
                    feeds, failing_feeds >>

monitorVars == << pc, cpc, step, results, all_results, historical_data, file,
                 hashseed, notification_channels, frequency, web, now, next_run,
                 summary, sent, procNo, cycleNo, edits, faults, cycle_start_data,
                 fetched, prevFetched, commit_ok, attempts, ai_calls, commits, outcome,
                 exit_cause, job_calls, missed, running, outage, targets_json >>

vars == << pc, cpc, step, results, all_results, historical_data, file, hashseed,
           notification_channels, frequency, web, now, next_run, summary, sent,
           procNo, cycleNo, edits, faults, cycle_start_data, fetched,
           prevFetched, commit_ok, attempts, ai_calls, commits, outcome, exit_cause,
           job_calls, missed, running, enable_selenium, fpc, f_url,
           use_selenium, caller, driver, sessions, strategy, fetch_exit,
           fetch_text, all_entries, feeds, failing_feeds, outage,
           targets_json >>

NoFetch == [k \in KeySet |-> ""]

InitCommon ==
    /\ pc = "down" /\ cpc = "idle" /\ step = 0
    /\ results = << >> /\ all_results = << >>
    /\ historical_data = EmptyStore
    /\ file = NoFile
    /\ hashseed = 0
    /\ web = [u \in Urls |-> "a"]
    /\ now = 0 /\ next_run = 0
    /\ summary = "" /\ sent = << >>
    /\ procNo = 0 /\ cycleNo = 0 /\ edits = 0 /\ faults = 0
    /\ cycle_start_data = EmptyStore
    /\ fetched = NoFetch /\ prevFetched = NoFetch
    /\ commit_ok = FALSE
    /\ attempts = << >> /\ ai_calls = << >> /\ commits = 0
    /\ outcome = "none" /\ exit_cause = "none"
    /\ job_calls = 0 /\ missed = FALSE /\ running = 0
    /\ fpc = "idle" /\ f_url = NoUrl /\ use_selenium = FALSE
    /\ caller = "none" /\ driver = "None" /\ sessions = 0
    /\ strategy = "none" /\ fetch_exit = "none" /\ fetch_text = ""
    /\ all_entries = << >>
    /\ outage = FALSE

\* no process runs yet, no historical_data.json exists; config.json holds
\* the defaults of _load_config
Init ==
    /\ InitCommon
    /\ targets_json = TargetsFile(Targets)
    /\ feeds = NoFeeds /\ failing_feeds = {}
    /\ notification_channels = {"slack", "notion"}
    /\ frequency = "weekly"
    /\ enable_selenium = TRUE

\* the same, under each frequency config.json can name
MainInit ==
    /\ InitCommon
    /\ targets_json = TargetsFile(Targets)
    /\ feeds = NoFeeds /\ failing_feeds = {}
    /\ notification_channels = {"slack", "notion"}
    /\ frequency \in Frequencies
    /\ enable_selenium = TRUE

----------------------------------------------------------------------------
(* Starting a process, starting and ending a report *)

\* _load_historical_data catches FileNotFoundError only: a file that does
\* not parse makes __init__ raise
ConstructorRaises(f) == f.state = "truncated"

LoadHistoricalData(f) ==
    IF f.state = "missing" THEN EmptyStore ELSE Parse(f.text)

\* schedule's Job has the units second .. week and the weekdays, and no
\* month: every().month raises AttributeError
SetupRaises(freq) == freq = "monthly"

\* ticks of the clock between two runs of the job
Period(freq) == IF freq = "daily" THEN 1440 ELSE 10080

\* asyncio.run() raises RuntimeError when its thread already runs an event loop
AsyncioRun(loop_running) == IF loop_running THEN "RuntimeError" ELSE "runs"

\* main() is a coroutine run by asyncio.run(main()): whatever it calls runs
\* inside the running loop
LoopRunning(p) == p \in {"initial", "job", "poll", "sleep"}

\* the first statements of run_weekly_report and run_monitoring_cycle
BeginCycle(h, before) ==
    /\ cpc' = IF Plan = << >> THEN "save_open" ELSE "monitor"
    /\ step' = IF Plan = << >> THEN 0 ELSE 1
    /\ results' = << >> /\ all_results' = << >>
    /\ summary' = "" /\ sent' = << >>
    /\ cycleNo' = cycleNo + 1
    /\ running' = running + 1
    /\ cycle_start_data' = h
    /\ prevFetched' = before
    /\ fetched' = NoFetch
    /\ commit_ok' = FALSE
    /\ attempts' = << >> /\ ai_calls' = << >> /\ commits' = 0
    /\ outcome' = "running"

\* run_weekly_report ends: it returns None, or an exception leaves it, and
\* its locals are gone.  A direct caller keeps the object; in main() nothing
\* catches the exception.
Finish(o) ==
    /\ cpc' = "idle" /\ step' = 0
    /\ results' = << >> /\ all_results' = << >> /\ summary' = ""
    /\ cycle_start_data' = EmptyStore /\ prevFetched' = NoFetch
    /\ attempts' = << >> /\ ai_calls' = << >>
    /\ outcome' = o
    /\ running' = running - 1
    /\ IF pc = "call"
       THEN /\ pc' = "ready"
            /\ UNCHANGED << exit_cause, historical_data, next_run >>
       ELSE IF o = "returned"
       THEN /\ pc' = IF pc = "initial" THEN "poll" ELSE "sleep"
            /\ next_run' = IF pc = "initial" THEN next_run
                           ELSE next_run + Period(frequency)
            /\ UNCHANGED << exit_cause, historical_data >>
       ELSE /\ pc' = "down"
            /\ exit_cause' = "cycle_exception"
            /\ historical_data' = EmptyStore
            /\ UNCHANGED next_run

\* monitor = AICompetitorMonitor(), by a caller that keeps the object
Construct ==
    /\ pc = "down" /\ procNo < MaxProcs
    /\ procNo' = procNo + 1
    /\ \E seed \in StartSeeds(procNo) : hashseed' = seed
    /\ IF ConstructorRaises(file)
       THEN /\ pc' = "down" /\ exit_cause' = "load_exception"
            /\ historical_data' = EmptyStore
       ELSE /\ pc' = "ready" /\ exit_cause' = "none"
            /\ historical_data' = LoadHistoricalData(file)
    /\ fetched' = IF commit_ok THEN fetched ELSE NoFetch
    /\ UNCHANGED fetchVars
    /\ UNCHANGED << cycleVars, file, configVars, envVars, schedVars, cycleNo,
                    faults, cycle_start_data, prevFetched, commit_ok,
                    attempts, ai_calls, commits, outcome, running >>

\* await monitor.run_weekly_report(), by that caller
CallRunWeeklyReport ==
    /\ pc = "ready" /\ cpc = "idle" /\ cycleNo < MaxCycles
    /\ pc' = "call"
    /\ BeginCycle(historical_data, fetched)
    /\ UNCHANGED fetchVars
    /\ UNCHANGED << storeVars, hashseed, configVars, envVars, schedVars, procNo,
                    faults, exit_cause >>

\* main(): construct the monitor, set up the schedule, begin the initial report
MainStart ==
    /\ pc = "down" /\ procNo < MaxProcs /\ cycleNo < MaxCycles
    /\ procNo' = procNo + 1
    /\ \E seed \in StartSeeds(procNo) : hashseed' = seed
    /\ job_calls' = 0 /\ missed' = FALSE
    /\ IF ConstructorRaises(file) \/ SetupRaises(frequency)
       THEN /\ pc' = "down"
            /\ exit_cause' = IF ConstructorRaises(file) THEN "load_exception"
                             ELSE "setup_exception"
            /\ historical_data' = EmptyStore
            /\ next_run' = 0
            /\ fetched' = IF commit_ok THEN fetched ELSE NoFetch
            /\ UNCHANGED << cycleVars, cycleNo, running, cycle_start_data,
                            prevFetched, commit_ok, attempts, ai_calls, commits,
                            outcome >>
       ELSE /\ pc' = "initial"
            /\ exit_cause' = "none"
            /\ historical_data' = LoadHistoricalData(file)
            /\ \E t \in (now + 1)..(MaxClock + 1) : next_run' = t
            /\ BeginCycle(LoadHistoricalData(file),
                          IF commit_ok THEN fetched ELSE NoFetch)
    /\ UNCHANGED fetchVars
    /\ UNCHANGED << file, configVars, envVars, now, faults >>

\* the caller's program ends between two reports
Exit ==
    /\ pc = "ready" /\ cpc = "idle"
    /\ pc' = "down" /\ exit_cause' = "exit"
    /\ historical_data' = EmptyStore
    /\ running' = 0
    /\ fetched' = IF commit_ok THEN fetched ELSE NoFetch
    /\ UNCHANGED fetchVars
    /\ UNCHANGED << cycleVars, file, hashseed, configVars, envVars, schedVars,
                    procNo, cycleNo, faults, cycle_start_data, prevFetched,
                    commit_ok, attempts, ai_calls, commits, outcome >>

\* the process is stopped from outside
Kill ==
    /\ pc # "down"
    /\ faults < MaxFaults /\ faults' = faults + 1
    /\ pc' = "down" /\ exit_cause' = "killed"
    /\ cpc' = "idle" /\ step' = 0
    /\ results' = << >> /\ all_results' = << >> /\ summary' = "" /\ sent' = << >>
    /\ historical_data' = EmptyStore
    /\ running' = 0
    /\ outcome' = IF cpc # "idle" THEN "killed" ELSE outcome
    /\ cycle_start_data' = EmptyStore
    /\ prevFetched' = NoFetch
    /\ attempts' = << >> /\ ai_calls' = << >>
    /\ fetched' = IF commit_ok THEN fetched ELSE NoFetch
    /\ UNCHANGED fetchVars
    /\ UNCHANGED << file, hashseed, configVars, envVars, schedVars, procNo,
                    cycleNo, commit_ok, commits >>

\* A monitored page or feed changes its text.  A cycle reads each URL once,
\* so a change during a cycle is a change before it or after it.
WebEdit ==
    /\ cpc = "idle"
    /\ edits < MaxEdits
    /\ edits' = edits + 1
    /\ \E u \in Urls : \E t \in PageTexts \ {web[u]} : web' = [web EXCEPT ![u] = t]
    /\ UNCHANGED outage
    /\ UNCHANGED fetchVars
    /\ UNCHANGED << pc, cycleVars, storeVars, hashseed, configVars, schedVars,
                    procNo, cycleNo, faults, histVars, outcome, exit_cause,
                    running >>

\* The network goes down as a cycle begins to monitor its targets, and stays
\* down while it does: every requests.get and every feedparser.parse raises.
Outage ==
    /\ cpc = "monitor" /\ step = 1 /\ ~outage
    /\ faults < MaxFaults /\ faults' = faults + 1
    /\ outage' = TRUE
    /\ UNCHANGED << web, edits >>
    /\ UNCHANGED fetchVars
    /\ UNCHANGED << pc, cycleVars, storeVars, hashseed, configVars, schedVars,
                    procNo, cycleNo, histVars, outcome, exit_cause, running >>

----------------------------------------------------------------------------
(* The monitoring cycle: monitor_target's channel blocks *)

\* a fetcher that hands back the text of the error instead of ""
ScrapeErrorText(w, url, fetch_ok) == IF fetch_ok THEN w[url] ELSE "error"

\* a fetcher whose handler returns what the response held
ScrapeIgnoringFailure(w, url, fetch_ok) == w[url]

\* scrape_website_content: the page's text, or "" when the request raised
Scrape(w, url, fetch_ok) == IF fetch_ok THEN w[url] ELSE ""

\* what happened to a channel block: its request (or every feed's parse)
\* raised, a capability call of its analysis raised, or neither
AttemptOutcome(fetch_ok, ai) ==
    IF ~fetch_ok THEN "fetch_failed"
    ELSE IF ai # "ok" THEN "analysis_failed" ELSE "ok"

\* the entry monitor_target writes under the channel's key
StagedEntry(content, seed, time) ==
    [content |-> content, hash |-> Str(PyHash(content, seed)),
     last_updated |-> Str(time)]

\* a result that does not carry its block's channel
MakeResultUnlabelled(t, content_type, url, content, seed, analysis, meta, time) ==
    [timestamp |-> time, target_name |-> t.name, content_type |-> "page",
     url |-> url, content_hash |-> Str(PyHash(content, seed)),
     raw_content |-> content, ai_summary |-> analysis.ai_summary,
     detected_changes |-> analysis.detected_changes, metadata |-> meta]

MakeResult(t, content_type, url, content, seed, analysis, meta, time) ==
    [timestamp |-> time, target_name |-> t.name, content_type |-> content_type,
     url |-> url, content_hash |-> Str(PyHash(content, seed)),
     raw_content |-> content, ai_summary |-> analysis.ai_summary,
     detected_changes |-> analysis.detected_changes, metadata |-> meta]

\* the store is saved inside the loop over the targets, after the first one,
\* and the loop is left
AdvanceEarlySave(new_results) ==
    /\ IF LastOfTarget(step)
       THEN /\ all_results' = all_results \o new_results
            /\ results' = << >>
       ELSE /\ results' = new_results
            /\ UNCHANGED all_results
    /\ IF step < Len(Plan) /\ ~LastOfTarget(step)
       THEN /\ step' = step + 1 /\ cpc' = "monitor"
       ELSE /\ step' = 0 /\ cpc' = "save_open"

\* `results` is one list shared by the targets: it is not emptied when
\* monitor_target returns
AdvanceSharedList(new_results) ==
    /\ results' = new_results
    /\ IF LastOfTarget(step)
       THEN all_results' = all_results \o new_results
       ELSE UNCHANGED all_results
    /\ IF step < Len(Plan)
       THEN /\ step' = step + 1 /\ cpc' = "monitor"
       ELSE /\ step' = 0 /\ cpc' = "save_open"

\* results.append(result); after the target's last channel monitor_target
\* returns and run_monitoring_cycle extends all_results; after the last
\* target the cycle goes on to save the store
Advance(new_results) ==
    /\ IF LastOfTarget(step)
       THEN /\ all_results' = all_results \o new_results
            /\ results' = << >>
       ELSE /\ results' = new_results
            /\ UNCHANGED all_results
    /\ IF step < Len(Plan)
       THEN /\ step' = step + 1 /\ cpc' = "monitor"
       ELSE /\ step' = 0 /\ cpc' = "save_open"

\* the website, changelog and pricing blocks of monitor_target
MonitorPage ==
    /\ cpc = "monitor" /\ Plan[step][2] # "blog"
    /\ \E fetch_ok \in (IF outage THEN {FALSE} ELSE BOOLEAN), ai \in AIOutcomes :
         LET t == Targets[Plan[step][1]]
             content_type == Plan[step][2]
             url == ChannelUrl(t, content_type)
             content == Scrape(web, url, fetch_ok)
             key == Key(t.name, content_type)
             previous_content == PreviousContent(historical_data, key)
             analysis == Analyze(content, content_type, previous_content, ai)
             cost == (IF fetch_ok \/ outage THEN 0 ELSE 1)
                     + (IF ai = "ok" THEN 0 ELSE 1)
         IN  /\ faults + cost <= MaxFaults
             /\ faults' = faults + cost
             /\ content = "" => ai = "ok"
             /\ ai = "diff_raises" => Compares(content, previous_content, ai)
             /\ attempts' = Append(attempts, AttemptOutcome(fetch_ok, ai))
             /\ ai_calls' = Append(ai_calls,
                    IF content = "" THEN 0
                    ELSE CapabilityCalls(content, previous_content, ai))
             /\ IF content # ""
                THEN /\ Advance(Append(results,
                            MakeResult(t, content_type, url, content, hashseed,
                                       analysis, << >>, cycleNo)))
                     /\ historical_data' =
                            Put(historical_data, key,
                                StagedEntry(content, hashseed, cycleNo))
                     /\ fetched' = [fetched EXCEPT ![key] = content]
                ELSE /\ Advance(results)
                     /\ UNCHANGED << historical_data, fetched >>
    /\ outage' = (outage /\ step < Len(Plan))
    /\ UNCHANGED fetchVars
    /\ UNCHANGED << pc, file, hashseed, configVars, web, edits, schedVars, summary,
                    sent, procNo, cycleNo, cycle_start_data, prevFetched,
                    commit_ok, commits, outcome, exit_cause, running >>

\* an RSS block that tracks the feed text like a page: it reads the entry of
\* the "{name}_blog" key, compares, and writes the entry
MonitorBlogTracked ==
    /\ cpc = "monitor" /\ Plan[step][2] = "blog"
    /\ \E failing \in (IF outage
                        THEN {SeqToSet(Targets[Plan[step][1]].rss_feeds)}
                        ELSE SUBSET SeqToSet(Targets[Plan[step][1]].rss_feeds)),
          ai \in {"ok", "summary_raises"} :
         LET t == Targets[Plan[step][1]]
             rss_entries ==
                 ScrapeRssFeeds(t.rss_feeds,
                                [u \in SeqToSet(t.rss_feeds) |-> ParseFeed(web[u])],
                                failing)
             rss_content == RssContent(rss_entries)
             key == Key(t.name, "blog")
             previous_content == PreviousContent(historical_data, key)
             analysis == Analyze(rss_content, "blog", previous_content, ai)
             cost == (IF outage THEN 0 ELSE Cardinality(failing))
                     + (IF ai = "ok" THEN 0 ELSE 1)
         IN  /\ faults + cost <= MaxFaults
             /\ faults' = faults + cost
             /\ rss_entries = << >> => ai = "ok"
             /\ attempts' = Append(attempts,
                    AttemptOutcome(failing # SeqToSet(t.rss_feeds), ai))
             /\ ai_calls' = Append(ai_calls,
                    IF rss_entries = << >> THEN 0
                    ELSE CapabilityCalls(rss_content, previous_content, ai))
             /\ IF rss_entries # << >>
                THEN /\ Advance(Append(results,
                            MakeResult(t, "blog", Str(Len(t.rss_feeds)),
                                       rss_content, hashseed, analysis,
                                       << << "entry_count", Len(rss_entries) >> >>,
                                       cycleNo)))
                     /\ historical_data' =
                            Put(historical_data, key,
                                StagedEntry(rss_content, hashseed, cycleNo))
                ELSE /\ Advance(results)
                     /\ UNCHANGED historical_data
    /\ outage' = (outage /\ step < Len(Plan))
    /\ UNCHANGED fetchVars
    /\ UNCHANGED << pc, file, hashseed, configVars, web, edits, schedVars,
                    summary, sent, procNo, cycleNo, cycle_start_data, fetched,
                    prevFetched, commit_ok, commits, outcome, exit_cause,
                    running >>

\* the RSS block of monitor_target
MonitorBlog ==
    /\ cpc = "monitor" /\ Plan[step][2] = "blog"
    /\ \E failing \in (IF outage
                        THEN {SeqToSet(Targets[Plan[step][1]].rss_feeds)}
                        ELSE SUBSET SeqToSet(Targets[Plan[step][1]].rss_feeds)),
          ai \in {"ok", "summary_raises"} :
         LET t == Targets[Plan[step][1]]
             rss_entries ==
                 ScrapeRssFeeds(t.rss_feeds,
                                [u \in SeqToSet(t.rss_feeds) |-> ParseFeed(web[u])],
                                failing)
             rss_content == RssContent(rss_entries)
             analysis == Analyze(rss_content, "blog", "", ai)
             cost == (IF outage THEN 0 ELSE Cardinality(failing))
                     + (IF ai = "ok" THEN 0 ELSE 1)
         IN  /\ faults + cost <= MaxFaults
             /\ faults' = faults + cost
             /\ rss_entries = << >> => ai = "ok"
             /\ attempts' = Append(attempts,
                    AttemptOutcome(failing # SeqToSet(t.rss_feeds), ai))
             /\ ai_calls' = Append(ai_calls,
                    IF rss_entries = << >> THEN 0
                    ELSE CapabilityCalls(rss_content, "", ai))
             /\ IF rss_entries # << >>
                THEN /\ Advance(Append(results,
                            MakeResult(t, "blog", Str(Len(t.rss_feeds)),
                                       rss_content, hashseed, analysis,
                                       << << "entry_count", Len(rss_entries) >> >>,
                                       cycleNo)))
                ELSE Advance(results)
    /\ outage' = (outage /\ step < Len(Plan))
    /\ UNCHANGED fetchVars
    /\ UNCHANGED << pc, storeVars, hashseed, configVars, web, edits, schedVars,
                    summary, sent, procNo, cycleNo, cycle_start_data, fetched,
                    prevFetched, commit_ok, commits, outcome, exit_cause,
                    running >>

----------------------------------------------------------------------------
(* The end of the cycle: _save_historical_data, then the report *)

\* open('historical_data.json', 'w'): the file is emptied, or open raises
SaveOpen ==
    /\ cpc = "save_open"
    /\ \E ok \in BOOLEAN :
         IF ok
         THEN /\ file' = Truncated
              /\ cpc' = "save_write"
              /\ UNCHANGED << pc, step, results, all_results, summary,
                              historical_data, next_run, faults, outcome,
                              exit_cause, running, cycle_start_data,
                              prevFetched, attempts, ai_calls >>
         ELSE /\ faults < MaxFaults /\ faults' = faults + 1
              /\ Finish("raised_save")
              /\ UNCHANGED file
    /\ UNCHANGED fetchVars
    /\ UNCHANGED << sent, hashseed, configVars, envVars, now, job_calls, missed,
                    procNo, cycleNo, fetched, commit_ok, commits >>

\* the delivery that follows the summary, and the one that follows Slack
AfterSummary(channels) ==
    IF "slack" \in channels THEN "slack"
    ELSE IF "notion" \in channels THEN "notion" ELSE "report"

AfterSlack(channels) == IF "notion" \in channels THEN "notion" ELSE "report"

\* run_weekly_report without `if not results: return`: the report is made
\* of an empty list of results too
SaveWriteAlwaysReports ==
    /\ cpc = "save_write"
    /\ \E ok \in BOOLEAN :
         IF ok
         THEN /\ file' = Written(historical_data)
              /\ commit_ok' = TRUE
              /\ commits' = commits + 1
              /\ UNCHANGED faults
              /\ cpc' = "summary"
              /\ UNCHANGED << pc, step, results, all_results, summary,
                              historical_data, next_run, outcome, exit_cause,
                              running, cycle_start_data, prevFetched, attempts,
                              ai_calls >>
         ELSE /\ faults < MaxFaults /\ faults' = faults + 1
              /\ Finish("raised_save")
              /\ UNCHANGED << file, commit_ok, commits >>
    /\ UNCHANGED fetchVars
    /\ UNCHANGED << sent, hashseed, configVars, envVars, now, job_calls, missed,
                    procNo, cycleNo, fetched >>

\* json.dump(...) into the open file and its close; run_monitoring_cycle
\* returns, and run_weekly_report returns at once when there are no results
SaveWrite ==
    /\ cpc = "save_write"
    /\ \E ok \in BOOLEAN :
         IF ok
         THEN /\ file' = Written(historical_data)
              /\ commit_ok' = TRUE
              /\ commits' = commits + 1
              /\ UNCHANGED faults
              /\ IF all_results = << >>
                 THEN Finish("returned")
                 ELSE /\ cpc' = "summary"
                      /\ UNCHANGED << pc, step, results, all_results, summary,
                                      historical_data, next_run, outcome,
                                      exit_cause, running, cycle_start_data,
                                      prevFetched, attempts, ai_calls >>
         ELSE /\ faults < MaxFaults /\ faults' = faults + 1
              /\ Finish("raised_save")
              /\ UNCHANGED << file, commit_ok, commits >>
    /\ UNCHANGED fetchVars
    /\ UNCHANGED << sent, hashseed, configVars, envVars, now, job_calls, missed,
                    procNo, cycleNo, fetched >>

\* generate_weekly_summary: the capability's text, or the fallback built
\* from the results when the call raises
GenerateWeeklySummary(rs, ok) ==
    IF rs = << >> THEN "No monitoring results available for this week."
    ELSE IF ok THEN "executive summary"
    ELSE "# Weekly Competitive Intelligence Summary"

Summarize ==
    /\ cpc = "summary"
    /\ \E ok \in BOOLEAN :
         /\ faults + (IF ok THEN 0 ELSE 1) <= MaxFaults
         /\ faults' = faults + (IF ok THEN 0 ELSE 1)
         /\ summary' = GenerateWeeklySummary(all_results, ok)
    /\ cpc' = AfterSummary(notification_channels)
    /\ UNCHANGED fetchVars
    /\ UNCHANGED << pc, step, results, all_results, sent, storeVars, hashseed,
                    configVars, envVars, schedVars, procNo, cycleNo, histVars,
                    outcome, exit_cause, running >>

\* send_to_slack, send_to_notion without their handlers: the exception of a
\* delivery leaves run_weekly_report
DeliverRaising(channel, next) ==
    /\ cpc = channel
    /\ \E ok \in BOOLEAN :
         IF ok
         THEN /\ sent' = Append(sent, << channel, "ok" >>)
              /\ cpc' = next
              /\ UNCHANGED << pc, step, results, all_results, summary,
                              historical_data, next_run, faults, outcome,
                              exit_cause, running, cycle_start_data,
                              prevFetched, attempts, ai_calls >>
         ELSE /\ faults < MaxFaults /\ faults' = faults + 1
              /\ sent' = Append(sent, << channel, "error" >>)
              /\ Finish("raised_delivery")
    /\ UNCHANGED fetchVars
    /\ UNCHANGED << file, hashseed, configVars, envVars, now, job_calls, missed,
                    procNo, cycleNo, fetched, commit_ok, commits >>

\* send_to_slack, send_to_notion: the delivery is made, or it raises and the
\* method logs the error
Deliver(channel, next) ==
    /\ cpc = channel
    /\ \E ok \in BOOLEAN :
         /\ faults + (IF ok THEN 0 ELSE 1) <= MaxFaults
         /\ faults' = faults + (IF ok THEN 0 ELSE 1)
         /\ sent' = Append(sent, << channel, IF ok THEN "ok" ELSE "error" >>)
    /\ cpc' = next
    /\ UNCHANGED fetchVars
    /\ UNCHANGED << pc, step, results, all_results, summary, storeVars, hashseed,
                    configVars, envVars, schedVars, procNo, cycleNo, histVars,
                    outcome, exit_cause, running >>

SendToSlack == Deliver("slack", AfterSlack(notification_channels))

SendToNotion == Deliver("notion", "report")

\* os.makedirs('reports') and the report file's open and writes
SaveReport ==
    /\ cpc = "report"
    /\ \E ok \in BOOLEAN :
         IF ok
         THEN /\ sent' = Append(sent, << "local", "ok" >>)
              /\ UNCHANGED faults
              /\ Finish("returned")
         ELSE /\ faults < MaxFaults /\ faults' = faults + 1
              /\ UNCHANGED sent
              /\ Finish("raised_report")
    /\ UNCHANGED fetchVars
    /\ UNCHANGED << file, hashseed, configVars, envVars, now, job_calls, missed,
                    procNo, cycleNo, fetched, commit_ok, commits >>

----------------------------------------------------------------------------
(* main()'s polling loop *)

\* a scheduler that runs a due job in a thread of its own, wherever main() is
RunPendingInThread ==
    /\ pc \in {"poll", "initial"}
    /\ IF next_run # 0 /\ now >= next_run
       THEN /\ job_calls' = job_calls + 1
            /\ running' = running + 1
            /\ next_run' = next_run + Period(frequency)
            /\ UNCHANGED pc
       ELSE /\ pc = "poll" /\ pc' = "sleep"
            /\ UNCHANGED << job_calls, running, next_run >>
    /\ UNCHANGED fetchVars
    /\ UNCHANGED << cycleVars, storeVars, hashseed, configVars, envVars, now,
                    missed, procNo, cycleNo, faults, histVars, outcome,
                    exit_cause >>

\* schedule.run_pending(): a job whose next_run has passed is run, and the
\* job is lambda: asyncio.run(monitor.run_weekly_report())
RunPending ==
    /\ pc = "poll"
    /\ IF next_run # 0 /\ now >= next_run
       THEN /\ job_calls' = job_calls + 1
            /\ IF AsyncioRun(LoopRunning(pc)) = "runs"
               THEN /\ cycleNo < MaxCycles
                    /\ pc' = "job"
                    /\ BeginCycle(historical_data, fetched)
                    /\ UNCHANGED << historical_data, exit_cause >>
               ELSE /\ pc' = "down"
                    /\ exit_cause' = "job_exception"
                    /\ historical_data' = EmptyStore
                    /\ UNCHANGED << cycleVars, cycleNo, running, cycle_start_data,
                                    fetched, prevFetched, commit_ok, attempts, ai_calls,
                                    commits, outcome >>
       ELSE /\ pc' = "sleep"
            /\ UNCHANGED << job_calls, historical_data, exit_cause, cycleVars,
                            cycleNo, running, cycle_start_data, fetched,
                            prevFetched, commit_ok, attempts, ai_calls, commits, outcome >>
    /\ UNCHANGED fetchVars
    /\ UNCHANGED << file, hashseed, configVars, envVars, now, next_run, missed,
                    procNo, faults >>

\* time.sleep(60)
Sleep ==
    /\ pc = "sleep" /\ now < MaxClock
    /\ now' = now + 1
    /\ pc' = "poll"
    /\ UNCHANGED fetchVars
    /\ UNCHANGED << cycleVars, storeVars, hashseed, configVars, envVars, next_run,
                    job_calls, missed, procNo, cycleNo, faults, histVars,
                    outcome, exit_cause, running >>

\* time passes while main() is inside a report
Tick ==
    /\ pc \in {"initial", "job"} /\ now < MaxClock
    /\ now' = now + 1
    /\ missed' = (missed \/ (next_run # 0 /\ now < next_run /\ next_run <= now + 1))
    /\ UNCHANGED fetchVars
    /\ UNCHANGED << pc, cycleVars, storeVars, hashseed, configVars, envVars,
                    next_run, job_calls, procNo, cycleNo, faults, histVars,
                    outcome, exit_cause, running >>

----------------------------------------------------------------------------
(* The fetchers, call by call: scrape_website_content with its two          *)
(* strategies, and scrape_rss_feeds on a list of feeds                      *)

\* `if use_selenium and self.config.get('enable_selenium', True)`
FetchStrategy(flag, enabled) == IF flag /\ enabled THEN "rendered" ELSE "static"

\* a call of scrape_website_content(url, use_selenium)
ScrapeWebsiteContent(who, flags) ==
    /\ fpc = "idle"
    /\ \E url \in Urls, flag \in flags :
          /\ f_url' = url /\ use_selenium' = flag
          /\ strategy' = FetchStrategy(flag, enable_selenium)
          /\ fpc' = IF FetchStrategy(flag, enable_selenium) = "rendered"
                    THEN "selenium" ELSE "requests"
    /\ caller' = who
    /\ fetch_exit' = "running" /\ fetch_text' = ""
    /\ all_entries' = << >>
    /\ UNCHANGED << enable_selenium, driver, sessions, feeds, failing_feeds >>
    /\ UNCHANGED monitorVars

\* monitor_target's calls: self.scrape_website_content(target.website_url),
\* and the same for changelog_url and pricing_url; use_selenium is left at
\* its default
MonitorTargetFetch == ScrapeWebsiteContent("monitor_target", {FALSE})

\* a call of the method by any other code, with either value of the flag
DirectFetch == ScrapeWebsiteContent("direct", BOOLEAN)

\* _scrape_with_requests, and the handler of scrape_website_content
ScrapeWithRequests ==
    /\ fpc = "requests"
    /\ \E ok \in BOOLEAN :
          /\ fetch_text' = Scrape(web, f_url, ok)
          /\ fetch_exit' = IF ok THEN "success" ELSE "exception"
    /\ fpc' = "idle"
    /\ UNCHANGED << enable_selenium, f_url, use_selenium, caller, driver,
                    sessions, strategy, all_entries,
                    feeds, failing_feeds >>
    /\ UNCHANGED monitorVars

\* _scrape_with_selenium: driver = None; driver = webdriver.Chrome(...)
SeleniumNewDriver ==
    /\ fpc = "selenium"
    /\ \E ok \in BOOLEAN :
          IF ok
          THEN /\ driver' = "session" /\ sessions' = sessions + 1
               /\ fpc' = "get"
               /\ UNCHANGED fetch_exit
          ELSE /\ fpc' = "except" /\ fetch_exit' = "exception"
               /\ UNCHANGED << driver, sessions >>
    /\ UNCHANGED << enable_selenium, f_url, use_selenium, caller, strategy,
                    fetch_text, all_entries,
                    feeds, failing_feeds >>
    /\ UNCHANGED monitorVars

\* a step of the try body that raises or goes on: `how` is what its
\* exception is recorded as
SeleniumStep(at, next, how) ==
    /\ fpc = at
    /\ \E ok \in BOOLEAN :
          IF ok
          THEN fpc' = next /\ UNCHANGED fetch_exit
          ELSE fpc' = "except" /\ fetch_exit' = how
    /\ UNCHANGED << enable_selenium, f_url, use_selenium, caller, driver,
                    sessions, strategy, fetch_text, all_entries,
                    feeds, failing_feeds >>
    /\ UNCHANGED monitorVars

\* driver.get(url)
SeleniumGet == SeleniumStep("get", "wait", "exception")

\* WebDriverWait(driver, 10).until(presence of body): TimeoutException
SeleniumWait == SeleniumStep("wait", "extract", "timeout")

\* the text of driver.page_source is returned
SeleniumExtract ==
    /\ fpc = "extract"
    /\ fetch_text' = web[f_url]
    /\ fetch_exit' = "success"
    /\ fpc' = "finally"
    /\ UNCHANGED << enable_selenium, f_url, use_selenium, caller, driver,
                    sessions, strategy, all_entries,
                    feeds, failing_feeds >>
    /\ UNCHANGED monitorVars

\* except Exception: log, return ""
SeleniumExcept ==
    /\ fpc = "except"
    /\ fetch_text' = ""
    /\ fpc' = "finally"
    /\ UNCHANGED << enable_selenium, f_url, use_selenium, caller, driver,
                    sessions, strategy, fetch_exit, all_entries,
                    feeds, failing_feeds >>
    /\ UNCHANGED monitorVars

\* the session is closed at the end of the try body instead: a failed fetch
\* does not come by the quit
SeleniumQuitInTryBody ==
    /\ fpc = "finally"
    /\ IF driver # "None" /\ fetch_exit = "success"
       THEN sessions' = sessions - 1
       ELSE UNCHANGED sessions
    /\ driver' = "None"
    /\ fpc' = "idle"
    /\ UNCHANGED << enable_selenium, f_url, use_selenium, caller, strategy,
                    fetch_exit, fetch_text, all_entries,
                    feeds, failing_feeds >>
    /\ UNCHANGED monitorVars

\* finally: if driver: driver.quit(); the call returns
SeleniumFinally ==
    /\ fpc = "finally"
    /\ IF driver # "None"
       THEN sessions' = sessions - 1
       ELSE UNCHANGED sessions
    /\ driver' = "None"
    /\ fpc' = "idle"
    /\ UNCHANGED << enable_selenium, f_url, use_selenium, caller, strategy,
                    fetch_exit, fetch_text, all_entries,
                    feeds, failing_feeds >>
    /\ UNCHANGED monitorVars

\* the entries feedparser can hand back for one feed
MakeEntry(i, kind) ==
    [title |-> Str(i), summary |-> "",
     link |-> IF kind = "unlinked" THEN NoLink ELSE "link",
     published |-> IF kind = "unlinked" THEN "recent" ELSE kind]

FeedsOfLen(n) ==
    { [i \in 1..n |-> MakeEntry(i, kinds[i])] : kinds \in [1..n -> EntryKinds] }

\* what the two feeds can parse to, MaxEntries entries between them
FeedInputs ==
    UNION { { [u \in SeqToSet(FeedUrls) |-> IF u = FeedUrls[1] THEN a ELSE b]
                : a \in FeedsOfLen(n[1]), b \in FeedsOfLen(n[2]) }
            : n \in { m \in (0..MaxEntries) \X (0..MaxEntries) :
                          m[1] + m[2] <= MaxEntries } }

\* scrape_rss_feeds(feed_urls) on the list of feeds, the parse of any of
\* them raising
ScrapeRssFeedsCall ==
    /\ fpc = "idle"
    /\ \E failing \in SUBSET SeqToSet(FeedUrls) :
          /\ failing_feeds' = failing
          /\ all_entries' = ScrapeRssFeeds(FeedUrls, feeds, failing)
    /\ caller' = "scrape_rss_feeds"
    /\ UNCHANGED << enable_selenium, fpc, f_url, use_selenium, driver, sessions,
                    strategy, fetch_exit, fetch_text, feeds >>
    /\ UNCHANGED monitorVars

----------------------------------------------------------------------------
(* cli.py: the management of targets.json *)

\* add_target: an empty name or website URL is refused; otherwise the target
\* is appended to the list the file holds (an empty list when there is no
\* file) and the file is written
AddTarget ==
    /\ \E name \in NameInputs, website_url \in UrlInputs :
          IF name = "" \/ website_url = ""
          THEN UNCHANGED targets_json
          ELSE /\ Len(targets_json.list) < MaxTargets
               /\ targets_json' =
                      [state |-> "present",
                       list |-> AppendTarget(targets_json.list, name, website_url)]
    /\ UNCHANGED fetchVars
    /\ UNCHANGED << pc, cycleVars, storeVars, hashseed, notification_channels,
                    frequency, envVars, schedVars, procNo, cycleNo, faults,
                    histVars, outcome, exit_cause, running >>

\* remove_target: with no targets it returns; otherwise the entry at the
\* number typed, less one, is deleted when that is an index of the list
RemoveTarget ==
    /\ \E choice \in -1..MaxTargets :
          IF targets_json.list = << >>
          THEN UNCHANGED targets_json
          ELSE IF 0 <= choice /\ choice < Len(targets_json.list)
          THEN targets_json' =
                   [state |-> "present",
                    list |-> DeleteTarget(targets_json.list, choice)]
          ELSE UNCHANGED targets_json
    /\ UNCHANGED fetchVars
    /\ UNCHANGED << pc, cycleVars, storeVars, hashseed, notification_channels,
                    frequency, envVars, schedVars, procNo, cycleNo, faults,
                    histVars, outcome, exit_cause, running >>

----------------------------------------------------------------------------
(* The specifications *)

CycleStep ==
    \/ MonitorPage \/ MonitorBlog
    \/ SaveOpen \/ SaveWrite
    \/ Summarize \/ SendToSlack \/ SendToNotion \/ SaveReport

Next ==
    \/ Construct \/ CallRunWeeklyReport \/ CycleStep \/ Exit \/ Kill \/ WebEdit
    \/ Outage

Spec == Init /\ [][Next]_vars

MainNext == MainStart \/ RunPending \/ Sleep \/ Tick \/ CycleStep

MainSpec == MainInit /\ [][MainNext]_vars

\* config.json with either value of enable_selenium
FetchInit ==
    /\ InitCommon
    /\ targets_json = TargetsFile(Targets)
    /\ feeds = NoFeeds /\ failing_feeds = {}
    /\ notification_channels = {"slack", "notion"}
    /\ frequency = "weekly"
    /\ enable_selenium \in BOOLEAN

FetchNext ==
    \/ MonitorTargetFetch \/ DirectFetch \/ ScrapeWithRequests
    \/ SeleniumNewDriver \/ SeleniumGet \/ SeleniumWait \/ SeleniumExtract
    \/ SeleniumExcept \/ SeleniumFinally

FetchSpec == FetchInit /\ [][FetchNext]_vars

\* scrape_rss_feeds as a function of what the feeds hold
FeedInit ==
    /\ InitCommon
    /\ targets_json = TargetsFile(Targets)
    /\ feeds \in FeedInputs /\ failing_feeds = {}
    /\ notification_channels = {"slack", "notion"}
    /\ frequency = "weekly"
    /\ enable_selenium = TRUE

FeedNext == ScrapeRssFeedsCall

FeedSpec == FeedInit /\ [][FeedNext]_vars

\* the command line tool, from a directory without targets.json
CliInit ==
    /\ InitCommon
    /\ targets_json = NoTargetsFile
    /\ feeds = NoFeeds /\ failing_feeds = {}
    /\ notification_channels = {"slack", "notion"}
    /\ frequency = "weekly"
    /\ enable_selenium = TRUE

CliNext == AddTarget \/ RemoveTarget

CliSpec == CliInit /\ [][CliNext]_vars

----------------------------------------------------------------------------
(* Properties *)

\* the results the cycle in progress has produced so far
Produced == all_results \o results

ResultKey(r) == Key(r.target_name, r.content_type)

PageResult(r) == r.content_type \in {"website", "changelog", "pricing"}

\* the key had an entry when the cycle began
Stored(k) == k \in DOMAIN cycle_start_data

\* C1: when a cycle fetches for a website, changelog or pricing key the text
\* the cycle before it fetched for that key, its result for the key has an
\* empty detected_changes, whatever the summarization calls did.  The cycle
\* before is the previous call on the same object, or the last committed cycle
\* of the previous process.
C1_Idempotence ==
    \A i \in 1..Len(Produced) :
        LET r == Produced[i]
        IN  (PageResult(r) /\ prevFetched[ResultKey(r)] = r.raw_content)
                => r.detected_changes = << >>

\* an unchanged text is fetched again by a restarted process
C1_Witness ==
    /\ procNo = 2
    /\ \E i \in 1..Len(Produced) :
          /\ PageResult(Produced[i])
          /\ prevFetched[ResultKey(Produced[i])] = Produced[i].raw_content
          /\ Produced[i].detected_changes = << >>

\* C2, as claimed: a key with a stored entry whose page is fetched with a
\* different text gets a result with a non-empty detected_changes.
C2_Original ==
    \A i \in 1..Len(Produced) :
        LET r == Produced[i]
        IN  (/\ PageResult(r)
             /\ Stored(ResultKey(r))
             /\ cycle_start_data[ResultKey(r)].content # r.raw_content)
                => r.detected_changes # << >>

\* C2, amended: the same when the summarization calls of that analysis
\* answered; the result then lists the marker and the capability's
\* comparison, and when a call failed it carries the failure text and an
\* empty list.
C2_ChangedContentDetected ==
    \A i \in 1..Len(Produced) :
        LET r == Produced[i]
        IN  (/\ PageResult(r)
             /\ Stored(ResultKey(r))
             /\ cycle_start_data[ResultKey(r)].content # r.raw_content)
                => IF r.ai_summary = AnalysisFailed
                   THEN r.detected_changes = << >>
                   ELSE r.detected_changes = << ContentUpdated, DiffText >>

C2_Witness ==
    \E i \in 1..Len(Produced) :
        /\ PageResult(Produced[i])
        /\ Stored(ResultKey(Produced[i]))
        /\ cycle_start_data[ResultKey(Produced[i])].content # Produced[i].raw_content
        /\ Produced[i].detected_changes # << >>

\* C3: a text fetched for a key without an entry yields one result for that
\* channel with no detected changes and a non-empty summary, the store holds
\* the text under the key, and so does the file once the cycle has saved it.
C3_FirstObservation ==
    \A k \in KeySet :
        (cpc # "idle" /\ fetched[k] # "" /\ ~Stored(k)) =>
            /\ \E i \in 1..Len(Produced) :
                  /\ ResultKey(Produced[i]) = k
                  /\ Produced[i].raw_content = fetched[k]
                  /\ Produced[i].detected_changes = << >>
                  /\ Produced[i].ai_summary # ""
            /\ k \in DOMAIN historical_data
            /\ historical_data[k].content = fetched[k]
            /\ commit_ok =>
                  /\ file.state = "complete"
                  /\ k \in DOMAIN Parse(file.text)
                  /\ Parse(file.text)[k].content = fetched[k]

\* the cycle has saved the first observation of a key
C3_Witness ==
    /\ commit_ok /\ cpc # "idle"
    /\ \E k \in KeySet : fetched[k] # "" /\ ~Stored(k)

\* C4: a text has one digest, in every process that computes it: the digest
\* a result carries equals the digest stored with the same text by the
\* process that wrote the entry.
C4_DigestStable ==
    \A i \in 1..Len(Produced) :
        LET r == Produced[i]
        IN  (/\ PageResult(r)
             /\ Stored(ResultKey(r))
             /\ cycle_start_data[ResultKey(r)].content = r.raw_content)
                => cycle_start_data[ResultKey(r)].hash = r.content_hash

\* C5: every entry of a live process's store carries the digest of its
\* content, so entries agree on the digest exactly when they agree on the
\* content.
C5_StoreDigests ==
    pc # "down" =>
        /\ \A k \in DOMAIN historical_data :
              historical_data[k].hash
                  = Str(PyHash(historical_data[k].content, hashseed))
        /\ \A k1, k2 \in DOMAIN historical_data :
              (historical_data[k1].hash = historical_data[k2].hash)
                  <=> (historical_data[k1].content = historical_data[k2].content)

\* C6: at most one report is in progress.
C6_OneCycleAtATime == running <= 1

\* the job's time has passed while the initial report is still running
C6_Witness ==
    pc = "initial" /\ running = 1 /\ next_run # 0 /\ now >= next_run

\* C7: a trigger whose time passed while a report was running has no effect:
\* the job is not run for it, neither during the report nor after it.
C7_MissedTriggerDropped == missed => job_calls = 0

\* C8: under each cadence the process gets past the schedule's set-up to its
\* initial report, and a job that run_pending runs becomes a report in
\* progress, after which the loop polls again.
C8_TriggersRunCycles ==
    /\ exit_cause # "setup_exception"
    /\ job_calls > 0 => pc \in {"job", "sleep", "poll"}

\* C9: a report that ends by an exception leaves the polling loop running.
C9_SchedulerSurvivesCycleFailure ==
    outcome \in {"raised_save", "raised_report"} => pc \in {"poll", "sleep", "job"}

\* C10: a failing save of the store does not end the report by an exception:
\* the results are returned and reported.
C10_CommitFailureContained == outcome # "raised_save"

\* the result comes from step i of Plan
FromStep(r, i) ==
    r.target_name = Targets[Plan[i][1]].name /\ r.content_type = Plan[i][2]

\* the results the cycle in progress holds for a step of Plan
ResultsOfStep(i) == SelectSeq(Produced, LAMBDA r : FromStep(r, i))

\* C11: a process killed at any point of a cycle, the save included, leaves
\* a store file the next process can load: the file is absent or holds a
\* complete store, never an emptied or half-written one.
C11_CommitAtomic == exit_cause = "killed" => file.state # "truncated"

\* C12: a cycle writes the store's file once, after every step of every
\* target has been made, whatever fetches and analyses failed: no write is
\* completed while targets are being monitored, none is pending before the
\* last step, and a cycle that reports or has returned has written once.
C12_CommitOnceAfterLastTarget ==
    /\ commits <= 1
    /\ cpc = "monitor" => commits = 0 /\ Len(attempts) = step - 1
    /\ cpc \in {"save_open", "save_write"} =>
           commits = 0 /\ Len(attempts) = Len(Plan)
    /\ cpc \in {"summary", "slack", "notion", "report"} =>
           commits = 1 /\ Len(attempts) = Len(Plan)
    /\ outcome = "returned" => commits = 1

\* a cycle in which a fetch or an analysis failed has written the store
C12_Witness ==
    /\ cpc = "summary" /\ commits = 1
    /\ \E i \in 1..Len(attempts) : attempts[i] # "ok"

\* C13, as claimed: a step whose fetch, feed parse or analysis failed has no
\* result, every other step has been made by the time the store is saved, and
\* the steps that did not fail have their results.
C13_Original ==
    /\ \A i \in 1..Len(attempts) :
          IF attempts[i] = "ok" THEN ResultsOfStep(i) # << >>
          ELSE ResultsOfStep(i) = << >>
    /\ cpc \notin {"idle", "monitor"} => Len(attempts) = Len(Plan)

\* C13, amended: a failed fetch or feed parse leaves its step without a
\* result; a failed analysis leaves its step with one result that carries the
\* failure text and no changes; in both cases every other step is made and
\* the steps without a failure have their results with the capability's
\* summary.
C13_ChannelIsolation ==
    /\ \A i \in 1..Len(attempts) :
          LET rs == ResultsOfStep(i)
          IN  CASE attempts[i] = "fetch_failed" -> rs = << >>
                [] attempts[i] = "analysis_failed" ->
                      /\ Len(rs) = 1
                      /\ rs[1].ai_summary = AnalysisFailed
                      /\ rs[1].detected_changes = << >>
                [] OTHER ->
                      /\ Len(rs) = 1
                      /\ rs[1].ai_summary = SummaryText
    /\ cpc \notin {"idle", "monitor"} => Len(attempts) = Len(Plan)

\* a fetch of a target failed, and a later channel of the same target and a
\* channel of the next target have their results
C13_Witness ==
    /\ cpc = "save_open"
    /\ \E i, j, k \in 1..Len(attempts) :
          /\ i < j /\ j < k
          /\ attempts[i] = "fetch_failed" /\ ResultsOfStep(i) = << >>
          /\ Plan[j][1] = Plan[i][1] /\ ResultsOfStep(j) # << >>
          /\ Plan[k][1] # Plan[i][1] /\ ResultsOfStep(k) # << >>

\* C14: a delivery that raises does not stop the report: after a failed
\* Slack delivery the Notion delivery is made when it is configured, and
\* after any failed delivery the report goes on to its next step and ends
\* by returning, unless the writing of the report file itself fails.
C14_NotificationIsolation ==
    \A i \in 1..Len(sent) :
        sent[i][2] = "error" =>
            /\ (sent[i][1] = "slack" /\ "notion" \in notification_channels) =>
                   (cpc = "notion" \/ \E j \in (i + 1)..Len(sent) :
                                         sent[j][1] = "notion")
            /\ \/ cpc \in {"notion", "report"}
               \/ cpc = "idle" /\ outcome \in {"returned", "raised_report"}

\* the Slack delivery raised, the Notion delivery was made, the report returned
C14_Witness ==
    /\ outcome = "returned"
    /\ \E i, j \in 1..Len(sent) :
          i < j /\ sent[i] = << "slack", "error" >> /\ sent[j] = << "notion", "ok" >>

\* C15: an analysis one of whose capability calls raised does not raise: its
\* step has a result, with the fixed failure text as summary and an empty
\* detected_changes.
C15_AnalyzeNeverRaises ==
    \A i \in 1..Len(attempts) :
        attempts[i] = "analysis_failed" =>
            LET rs == ResultsOfStep(i)
            IN  /\ rs # << >>
                /\ \A j \in 1..Len(rs) :
                      /\ rs[j].ai_summary = AnalysisFailed
                      /\ rs[j].detected_changes = << >>

\* the comparison call of an analysis raised
C15_Witness ==
    \E i \in 1..Len(attempts) :
        /\ attempts[i] = "analysis_failed"
        /\ Plan[i][2] # "blog"
        /\ Stored(Key(Targets[Plan[i][1]].name, Plan[i][2]))
        /\ cycle_start_data[Key(Targets[Plan[i][1]].name, Plan[i][2])].content
              # fetched[Key(Targets[Plan[i][1]].name, Plan[i][2])]

\* the target has a website_url and nothing else
WebsiteOnly(t) ==
    /\ t.changelog_url = NoUrl /\ t.pricing_url = NoUrl /\ t.blog_url = NoUrl
    /\ t.rss_feeds = << >>

ResultsOfTarget(name) == SelectSeq(Produced, LAMBDA r : r.target_name = name)

\* C16: a target with only a website_url has at most one result in a cycle,
\* a website result, and none when its website fetch failed.
C16_WebsiteOnlyTarget ==
    \A i \in 1..Len(Plan) :
        WebsiteOnly(Targets[Plan[i][1]]) =>
            LET rs == ResultsOfTarget(Targets[Plan[i][1]].name)
            IN  /\ Len(rs) <= 1
                /\ \A j \in 1..Len(rs) : rs[j].content_type = "website"
                /\ (i <= Len(attempts) /\ attempts[i] = "fetch_failed") =>
                       rs = << >>
                /\ i > Len(attempts) => rs = << >>

\* the website-only target has its one result
C16_Witness ==
    \E i \in 1..Len(attempts) :
        /\ WebsiteOnly(Targets[Plan[i][1]])
        /\ Len(ResultsOfTarget(Targets[Plan[i][1]].name)) = 1

\* C17: the results of a cycle follow the order of Plan (targets in list
\* order, channels in the order website, changelog, pricing, blog), with at
\* most one result for a step: every result comes from a step, and of two
\* neighbours the second comes from a later step.
C17_ResultOrder ==
    LET rs == Produced
        StepOf(r) == CHOOSE i \in 1..Len(Plan) : FromStep(r, i)
    IN  /\ \A j \in 1..Len(rs) : \E i \in 1..Len(Plan) : FromStep(rs[j], i)
        /\ \A j \in 1..(Len(rs) - 1) : StepOf(rs[j]) < StepOf(rs[j + 1])

\* results of both targets, with a step in between that produced none
C17_Witness ==
    /\ Len(all_results) >= 3
    /\ \E i \in 1..Len(attempts) : attempts[i] = "fetch_failed"
    /\ \E j1, j2 \in 1..Len(all_results) :
          all_results[j1].target_name # all_results[j2].target_name

\* the entry of a parsed feed is dated within the last week
InWindow(entry) ==
    /\ entry.published \notin {"absent", "unparsable"}
    /\ DateOf(entry.published) >= Today - Week

\* the returned entries that come from entry i of feed u
Returned(u, i) ==
    SelectSeq(all_entries,
              LAMBDA e : e.source = u /\ e.title = feeds[u][i].title)

\* C18, as claimed: an entry of a feed whose date is absent or did not parse
\* is not in the entries scrape_rss_feeds returns, and every entry of that
\* feed that is dated within the last week is, once.
C18_Original ==
    caller = "scrape_rss_feeds" =>
        \A u \in SeqToSet(FeedUrls) \ failing_feeds :
            \A i \in 1..Len(feeds[u]) :
                /\ feeds[u][i].published \in {"absent", "unparsable"} =>
                       Returned(u, i) = << >>
                /\ InWindow(feeds[u][i]) => Len(Returned(u, i)) = 1

\* C18, amended: an entry of a feed whose date is absent or did not parse is
\* not in the entries scrape_rss_feeds returns, and every entry of that feed
\* that is dated within the last week and has a link is, once.
C18_BadDatesSkipped ==
    caller = "scrape_rss_feeds" =>
        \A u \in SeqToSet(FeedUrls) \ failing_feeds :
            \A i \in 1..Len(feeds[u]) :
                /\ feeds[u][i].published \in {"absent", "unparsable"} =>
                       Returned(u, i) = << >>
                /\ (InWindow(feeds[u][i]) /\ feeds[u][i].link # NoLink) =>
                       Len(Returned(u, i)) = 1

\* a feed with an entry whose date did not parse between two linked entries
\* of the week, both returned
C18_Witness ==
    /\ caller = "scrape_rss_feeds"
    /\ Len(all_entries) = 2
    /\ \E u \in SeqToSet(FeedUrls) \ failing_feeds :
          /\ Len(feeds[u]) = 3
          /\ InWindow(feeds[u][1]) /\ feeds[u][1].link # NoLink
          /\ feeds[u][2].published = "unparsable"
          /\ InWindow(feeds[u][3]) /\ feeds[u][3].link # NoLink

\* C19: a browser session is open only inside a rendered fetch: when the
\* call has returned, however it went, no session is open, and no more than
\* one is ever open.
C19_SessionReleased ==
    /\ sessions <= 1
    /\ fpc = "idle" => sessions = 0
    /\ fpc \in {"requests", "selenium"} => sessions = 0

\* a rendered fetch that ran into the readiness timeout has returned
C19_Witness ==
    fpc = "idle" /\ strategy = "rendered" /\ fetch_exit = "timeout" /\ sessions = 0

\* C20: a fetch monitor_target makes goes to the fetcher the configuration
\* selects: the rendered one when enable_selenium is true, the static one
\* when it is false.
C20_StrategyByConfiguration ==
    (caller = "monitor_target" /\ strategy # "none") =>
        strategy = IF enable_selenium THEN "rendered" ELSE "static"

\* the key of step i of Plan, a page step
StepKey(i) == Key(Targets[Plan[i][1]].name, Plan[i][2])

\* C21: an analysis makes the second capability call (the comparison) only
\* when the fetched text differs from a non-empty stored text; an analysis of
\* a key without a stored text, of an unchanged text, or of a feed makes
\* exactly one call, and a step that made no analysis makes none.
C21_TwoTierDetection ==
    \A i \in 1..Len(ai_calls) :
        IF Plan[i][2] = "blog"
        THEN ai_calls[i] = (IF ResultsOfStep(i) = << >> THEN 0 ELSE 1)
        ELSE LET k == StepKey(i)
                 previous == IF Stored(k) THEN cycle_start_data[k].content ELSE ""
             IN  /\ ai_calls[i] \in {0, 1, 2}
                 /\ ai_calls[i] = 0 <=> attempts[i] = "fetch_failed"
                 /\ ai_calls[i] = 2 =>
                        previous # "" /\ previous # fetched[k]
                 /\ (attempts[i] # "fetch_failed"
                       /\ (previous = "" \/ previous = fetched[k])) =>
                        ai_calls[i] = 1

\* in one cycle a changed text was compared and an unchanged stored text was
\* analysed with the one call
C21_Witness ==
    \E i, j \in 1..Len(ai_calls) :
        /\ Plan[i][2] # "blog" /\ Plan[j][2] # "blog"
        /\ ai_calls[i] = 2
        /\ ai_calls[j] = 1 /\ Stored(StepKey(j))
        /\ cycle_start_data[StepKey(j)].content = fetched[StepKey(j)]

\* the returned entries are in descending order of their dates
Descending ==
    \A j \in 1..(Len(all_entries) - 1) :
        all_entries[j].published >= all_entries[j + 1].published

\* every returned entry is an entry, dated within the week, of a feed that parsed
FromParsedFeeds ==
    \A j \in 1..Len(all_entries) :
        LET e == all_entries[j]
        IN  /\ e.source \in SeqToSet(FeedUrls) \ failing_feeds
            /\ \E i \in 1..Len(feeds[e.source]) :
                  /\ feeds[e.source][i].title = e.title
                  /\ InWindow(feeds[e.source][i])
                  /\ e.published = DateOf(feeds[e.source][i].published)

\* C22, as claimed: what scrape_rss_feeds returns is the entries of the feeds
\* that parsed whose date parses and lies within the last week, each once, in
\* descending order of date; a feed whose parse raised contributes none.
C22_Original ==
    caller = "scrape_rss_feeds" =>
        /\ FromParsedFeeds
        /\ Descending
        /\ \A u \in SeqToSet(FeedUrls) \ failing_feeds :
              \A i \in 1..Len(feeds[u]) :
                  InWindow(feeds[u][i]) => Len(Returned(u, i)) = 1

\* C22, amended: the same for the entries that also have a link (and a
\* title); an entry without one is skipped like an entry without a date.
C22_FeedResult ==
    caller = "scrape_rss_feeds" =>
        /\ FromParsedFeeds
        /\ Descending
        /\ \A u \in SeqToSet(FeedUrls) :
              \A i \in 1..Len(feeds[u]) :
                  Len(Returned(u, i)) =
                      IF u \notin failing_feeds /\ InWindow(feeds[u][i])
                            /\ feeds[u][i].link # NoLink
                      THEN 1 ELSE 0

\* the first feed's parse raised, and the second feed's two entries of the
\* week are returned, the newer one first though the feed lists it last
C22_Witness ==
    /\ caller = "scrape_rss_feeds"
    /\ failing_feeds = {FeedUrls[1]}
    /\ feeds[FeedUrls[1]] # << >>
    /\ Len(all_entries) = 2
    /\ Len(feeds[FeedUrls[2]]) = 2
    /\ feeds[FeedUrls[2]][1].published = "recent"
    /\ feeds[FeedUrls[2]][2].published = "newer"
    /\ all_entries[1].title = feeds[FeedUrls[2]][2].title

\* C23: in a report each of the deliveries Slack, Notion and the local
\* report file is attempted if and only if it is in notification_channels:
\* no delivery outside the configured set is made, and a report that has
\* returned after its deliveries has made every configured one.
C23_OnlyConfiguredChannels ==
    /\ \A i \in 1..Len(sent) : sent[i][1] \in notification_channels
    /\ (outcome = "returned" /\ sent # << >>) =>
           \A c \in notification_channels :
               \E i \in 1..Len(sent) : sent[i][1] = c

\* the store's entry under the key is the one the cycle began with, or there
\* is none as there was none
EntryUnchanged(k) ==
    IF Stored(k)
    THEN k \in DOMAIN historical_data /\ historical_data[k] = cycle_start_data[k]
    ELSE k \notin DOMAIN historical_data

\* C24: a page step whose fetch failed leaves the entry of its key (content,
\* digest, last_updated) as the cycle found it and has no result; during a
\* cycle an entry differs from the one the cycle began with only under a key
\* for which the cycle has fetched a text.
C24_FailedFetchFrame ==
    cpc # "idle" =>
        /\ \A i \in 1..Len(attempts) :
              (Plan[i][2] # "blog" /\ attempts[i] = "fetch_failed") =>
                  /\ EntryUnchanged(StepKey(i))
                  /\ ResultsOfStep(i) = << >>
        /\ \A k \in KeySet : ~EntryUnchanged(k) => fetched[k] # ""

\* the fetch of a stored key failed and its entry is kept, while the entry of
\* another stored key has been overwritten
C24_Witness ==
    /\ cpc = "save_open"
    /\ \E i \in 1..Len(attempts) :
          /\ Plan[i][2] # "blog" /\ attempts[i] = "fetch_failed"
          /\ Stored(StepKey(i)) /\ EntryUnchanged(StepKey(i))
    /\ \E k \in KeySet : Stored(k) /\ ~EntryUnchanged(k)

\* C25: whatever add_target and remove_target have done, no two targets of
\* targets.json have the same name and none has an empty name, so that no two
\* targets share a "{name}_{channel}" key of the store.
C25_TargetNamesUnique ==
    LET ts == targets_json.list
    IN  /\ \A i \in 1..Len(ts) : ts[i].name # ""
        /\ \A i, j \in 1..Len(ts) : i # j => ts[i].name # ts[j].name
        /\ \A i, j \in 1..Len(ts) :
              i # j => Key(ts[i].name, "website") # Key(ts[j].name, "website")

\* C26: once a cycle has fetched a text for a page key, the live process's
\* store holds that text under the key, whether the analysis of the step
\* succeeded or failed; a step whose analysis failed has a result with an
\* empty detected_changes, also when the text had changed; and a result for
\* a text equal to the stored one, or to the one the cycle before fetched,
\* has an empty detected_changes: the change is not reported later.
C26_StoredAfterFailedAnalysis ==
    /\ \A k \in KeySet :
          (pc # "down" /\ fetched[k] # "") =>
              /\ k \in DOMAIN historical_data
              /\ historical_data[k].content = fetched[k]
    /\ \A i \in 1..Len(attempts) :
          (Plan[i][2] # "blog" /\ attempts[i] = "analysis_failed") =>
              /\ fetched[StepKey(i)] # ""
              /\ \A j \in 1..Len(ResultsOfStep(i)) :
                    ResultsOfStep(i)[j].detected_changes = << >>
    /\ \A i \in 1..Len(Produced) :
          LET r == Produced[i]
              k == ResultKey(r)
          IN  (/\ PageResult(r)
               /\ \/ Stored(k) /\ cycle_start_data[k].content = r.raw_content
                  \/ prevFetched[k] = r.raw_content)
                 => r.detected_changes = << >>

\* a stored text has changed, the comparison call raised, and the store holds
\* the new text while the step's result lists no change
C26_Witness ==
    \E i \in 1..Len(attempts) :
        /\ Plan[i][2] # "blog" /\ attempts[i] = "analysis_failed"
        /\ Stored(StepKey(i))
        /\ cycle_start_data[StepKey(i)].content # fetched[StepKey(i)]
        /\ historical_data[StepKey(i)].content = fetched[StepKey(i)]
        /\ Len(ResultsOfStep(i)) = 1
        /\ ResultsOfStep(i)[1].detected_changes = << >>

\* the keys a tracked blog channel would have
BlogKeys == { Key(Targets[i].name, "blog") : i \in 1..Len(Targets) }

\* the shapes of a target as to its blog_url and its rss_feeds
TargetShapes ==
    { [name |-> "Shape", website_url |-> "shape.test", changelog_url |-> NoUrl,
       pricing_url |-> NoUrl, blog_url |-> b, rss_feeds |-> f]
        : b \in {NoUrl, "shape.test/blog"}, f \in {<< >>, << "shape.test/feed" >>} }

C28_DigestIndependence ==
    \A i \in 1..Len(attempts) :
        (Plan[i][2] # "blog" /\ attempts[i] # "fetch_failed") =>
            LET k == StepKey(i)
                previous == IF Stored(k) THEN cycle_start_data[k].content ELSE ""
                changed == previous # "" /\ previous # fetched[k]
                rs == ResultsOfStep(i)
            IN  /\ Len(rs) = 1
                /\ rs[1].detected_changes =
                       IF changed /\ attempts[i] = "ok"
                       THEN << ContentUpdated, DiffText >> ELSE << >>
                /\ attempts[i] = "ok" =>
                       ai_calls[i] = IF changed THEN 2 ELSE 1
                /\ ai_calls[i] = 2 => changed

\* a process whose hash seed is not the one the store was written under: no
\* stored digest is the digest this process computes for the stored content,
\* and still the entry whose content has changed is compared (two calls) and
\* the entry whose content has not is not (one call)
C28_Witness ==
    \E i, j \in 1..Len(attempts) :
        /\ Plan[i][2] # "blog" /\ Plan[j][2] # "blog"
        /\ attempts[i] = "ok" /\ attempts[j] = "ok"
        /\ Stored(StepKey(i)) /\ Stored(StepKey(j))
        /\ cycle_start_data[StepKey(i)].content # fetched[StepKey(i)]
        /\ cycle_start_data[StepKey(j)].content = fetched[StepKey(j)]
        /\ cycle_start_data[StepKey(i)].hash
               # Str(PyHash(cycle_start_data[StepKey(i)].content, hashseed))
        /\ cycle_start_data[StepKey(j)].hash
               # Str(PyHash(cycle_start_data[StepKey(j)].content, hashseed))
        /\ ai_calls[i] = 2 /\ ai_calls[j] = 1

\* C29: a report whose cycle produced no result makes no summary, no
\* delivery and no report file: the steps after the save are entered with
\* results only, and a report that returned without any delivery has written
\* the store's file, once.
C29_EmptyCycle ==
    /\ cpc \in {"summary", "slack", "notion", "report"} => all_results # << >>
    /\ (cpc # "idle" /\ all_results = << >>) => sent = << >>
    /\ (outcome = "returned" /\ sent = << >>) =>
           /\ commits = 1 /\ commit_ok
           /\ file.state = "complete"

\* every fetch of the cycle failed, and the report has returned at the save
C29_Witness ==
    /\ cpc = "idle" /\ outcome = "returned" /\ sent = << >>
    /\ commits = 1 /\ faults > 0

\* the two stores have the same keys and, under each, the same content
SameContents(h1, h2) ==
    /\ DOMAIN h1 = DOMAIN h2
    /\ \A k \in DOMAIN h1 : h1[k].content = h2[k].content

\* C30: what a process loads from the file a save has written has the keys
\* and the contents of the store that was saved: for the store as it is, for
\* the file a cycle has written while the cycle goes on to report, and for
\* the store of a process that waits for its next call, be it the process
\* that wrote the file or one started after it.  A cycle that finds under a
\* key the content it fetches reports no change for it.
C30_PersistenceRoundTrip ==
    /\ SameContents(LoadHistoricalData(Written(historical_data)), historical_data)
    /\ cpc \in {"summary", "slack", "notion", "report"} =>
           /\ file.state = "complete"
           /\ SameContents(LoadHistoricalData(file), historical_data)
    /\ (pc = "ready" /\ commit_ok) =>
           /\ file.state = "complete"
           /\ SameContents(LoadHistoricalData(file), historical_data)
    /\ \A i \in 1..Len(Produced) :
          LET r == Produced[i]
          IN  (/\ PageResult(r) /\ Stored(ResultKey(r))
               /\ cycle_start_data[ResultKey(r)].content = r.raw_content)
                 => r.detected_changes = << >>

\* a second process, of another hash seed, has loaded every key from the file
\* and its cycle has a result without changes for an unchanged text
C30_Witness ==
    /\ procNo = 2 /\ hashseed = 1 /\ cpc = "monitor"
    /\ DOMAIN cycle_start_data = KeySet
    /\ \E i \in 1..Len(Produced) :
          /\ PageResult(Produced[i])
          /\ cycle_start_data[ResultKey(Produced[i])].content
                = Produced[i].raw_content
          /\ Produced[i].detected_changes = << >>

====
